---- MODULE Spec2Model ----
(***************************************************************************)
(* Model of TwitterPipeline.run() and the methods it awaits, from          *)
(* src/src/twitter/DataOrganizer.js.  One logical flow; every await on a   *)
(* collaborator (scraper, file system, prompt) is one step whose outcome   *)
(* (value returned or exception thrown) is chosen nondeterministically.    *)
(***************************************************************************)
EXTENDS Integers, Sequences, FiniteSets, TLC

\* ------------------------------------------------------------------ bounds
\* largest value of the MAX_RETRIES / RETRY_DELAY / MAX_TWEETS settings tried
MaxRetriesEnv == 1
MaxDelayEnv == 0
MaxTweetsEnv == 1
\* identifiers 1..MaxId; 0 stands for a raw item without a (truthy) id
MaxId == 2
\* longest sequence the search iterator yields
MaxSource == 3
\* largest tweetsCount a profile reports
MaxProfile == 2
\* longest sequence the search iterator yields when termination is examined
LiveSource == 2
\* largest value of the MIN_DELAY / MAX_DELAY settings tried
MaxPaceEnv == 1
\* longest sequence the search iterator yields when pacing is examined
PacingSource == 100
\* most entries in a cookie file, longest cookie value
MaxCookies == 2
MaxValueLen == 3

\* ------------------------------------------------------- program constants
DefaultMaxRetries == 5
DefaultRetryDelay == 3000
DefaultMaxTweets == 10000
NoLimit == 1000000000
DefaultMinDelay == 1000
DefaultMaxDelay == 3000
PauseEvery == 100
ParentPauseEvery == 50

\* ----------------------------------------------------------------- helpers
\* parseInt(process.env.X, 10) || dflt; env = 0 stands for unset, NaN or 0
ParseIntOr(env, dflt) == IF env = 0 THEN dflt ELSE env

Min(a, b) == IF a < b THEN a ELSE b

\* raw post records: id (0 = none) and inReplyToStatusId (0 = not a reply)
RawItems == [id : 0..MaxId, inReplyToStatusId : 0..1]

\* Map.has(id) on the insertion-ordered results map
Has(res, id) == \E k \in 1..Len(res) : res[k].id = id

\* if (!results.has(raw.id)) results.set(raw.id, raw)
SetAlways(res, raw) == Append(res, raw)
SetIfAbsent(res, raw) == IF Has(res, raw.id) THEN res ELSE Append(res, raw)

\* Math.min(maxTweets, totalTweetsForUser || 1e9)
MaxWantedNoCap(mt, total) == mt
MaxWanted(mt, total) == Min(mt, IF total = 0 THEN NoLimit ELSE total)

\* retryDelay * attempt, the delay handed to setTimeout after a failed attempt
BackoffConst(rd, att) == rd
Backoff(rd, att) == rd * att

\* randomDelay: Math.floor(Math.random() * (max - min + 1)) + min, with
\* Math.random() in [0, 1): every value the expression can take
RandomDelayMin(min, max) == {min}
RandomDelay(min, max) ==
    IF max - min + 1 > 0 THEN min..max ELSE (max + 1)..min

\* allTweets.filter(t => t.inReplyToStatusId), as positions in allTweets
RECURSIVE Replies(_, _)
Replies(tw, k) ==
    IF k > Len(tw) THEN <<>>
    ELSE IF tw[k].inReplyToStatusId # 0 THEN <<k>> \o Replies(tw, k + 1)
    ELSE Replies(tw, k + 1)

\* parent?.text || ""  (outcome "text": a parent with text; "notext": a
\* parent without text or no parent); the catch branch assigns "" as well
ParentTextKeep(outcome) == IF outcome = "text" THEN "text" ELSE "unset"
ParentText(outcome) == IF outcome = "text" THEN "text" ELSE ""

VARIABLES
    pc,              \* next step of run() and of the method it is inside
    maxRetries, retryDelay, maxTweets,     \* this.config.twitter
    minDelay, maxDelay,                    \* this.config.twitter
    srcMax,          \* the search iterator yields at most srcMax items
    cookiesLoaded,   \* initializeScraper: result of loadCookies ("none" before)
    sessionCheck,    \* outcome of isLoggedIn on the loaded cookies
    attempt,         \* initializeScraper: loop counter
    ok,              \* run: result of initializeScraper ("none" before)
    authVia,         \* which path returned true: "cookies" or "login"
    cookieSave,      \* outcome of saveCookies: "none", "saved", "failed"
    loginCalls,      \* number of scraper.login invocations
    failedAttempts,  \* number of times the catch of the retry loop was entered
    verified,        \* isLoggedIn returned true after a login
    waits,           \* delays slept in the retry loop, in order
    profileResult,   \* getProfile: "none", "threw" or "ok"
    totalTweetsForUser, maxWanted,
    yielded,         \* number of items pulled from the search iterator
    exhausted,       \* the search iterator has reported that it is done
    results, count, pauses,
    pauseLens,       \* length of each pacing pause of collectMainTweets
    collectStage,    \* collectMainTweets: "idle", "running", "returned"
    mainTweets,      \* run: the array returned by collectMainTweets
    replies, i,      \* fetchAllParentTweets: reply positions, processed count
    fetchLog,        \* outcome of each getTweet call, in order
    parentPauses,    \* pacing pauses taken by fetchAllParentTweets
    parentStage,     \* fetchAllParentTweets: "idle", "running", "done"
    calls,           \* invocations of each collaborator so far
    analyticsAt,     \* parentStage at each generateAnalytics call, in order
    outcome,         \* how run() ended: "none", "exit", "initFailed", "noTweets",
                     \* "done", "error"
    errorAt,         \* the step whose exception reached the catch of run()
    logoutResult,    \* cleanup: "none", "ok" or "threw" (caught)
    cookieRecord,    \* the array parsed from the cookie file
    wireCookies,     \* the cookies in the scraper's jar
    savedRecord,     \* the array saveCookies writes to the cookie file
    tweets,          \* the argument of generateAnalytics
    report           \* what generateAnalytics returns (status "none" before)

vars == <<pc, maxRetries, retryDelay, maxTweets, minDelay, maxDelay, srcMax,
          profileResult, pauseLens, errorAt, logoutResult,
          cookieRecord, wireCookies, savedRecord, tweets, report,
          cookiesLoaded, sessionCheck,
          attempt, ok, authVia, cookieSave, loginCalls, failedAttempts,
          verified, waits, totalTweetsForUser, maxWanted, yielded, exhausted,
          results, count, pauses, collectStage, mainTweets, replies, i,
          fetchLog, parentPauses, parentStage, calls, analyticsAt, outcome>>

cfgVars == <<maxRetries, retryDelay, maxTweets, minDelay, maxDelay, srcMax>>
initVars == <<cookiesLoaded, sessionCheck, attempt, ok, authVia, cookieSave,
              loginCalls, failedAttempts, verified, waits>>
collectVars == <<profileResult, totalTweetsForUser, maxWanted, yielded,
                 exhausted, results, count, pauses, pauseLens, collectStage>>
endVars == <<errorAt, logoutResult>>
unitVars == <<cookieRecord, wireCookies, savedRecord, tweets, report>>
runVars == <<cfgVars, initVars, collectVars, endVars, mainTweets, replies, i,
             fetchLog, parentPauses, parentStage, calls, analyticsAt, outcome>>
parentVars == <<mainTweets, replies, i, fetchLog, parentPauses, parentStage>>

Called(name) == [calls EXCEPT ![name] = @ + 1]

Init ==
    /\ pc = "validateEnvironment"
    /\ maxRetries \in {ParseIntOr(e, DefaultMaxRetries) : e \in 0..MaxRetriesEnv}
    /\ retryDelay \in {ParseIntOr(e, DefaultRetryDelay) : e \in 0..MaxDelayEnv}
    /\ maxTweets \in {ParseIntOr(e, DefaultMaxTweets) : e \in 0..MaxTweetsEnv}
    /\ minDelay = ParseIntOr(0, DefaultMinDelay)
    /\ maxDelay = ParseIntOr(0, DefaultMaxDelay)
    /\ srcMax = MaxSource
    /\ profileResult = "none"
    /\ pauseLens = <<>>
    /\ errorAt = "none"
    /\ logoutResult = "none"
    /\ cookiesLoaded = "none"
    /\ sessionCheck = "none"
    /\ attempt = 0
    /\ ok = "none"
    /\ authVia = "none"
    /\ cookieSave = "none"
    /\ loginCalls = 0
    /\ failedAttempts = 0
    /\ verified = FALSE
    /\ waits = <<>>
    /\ totalTweetsForUser = 0
    /\ maxWanted = 0
    /\ yielded = 0
    /\ exhausted = FALSE
    /\ results = <<>>
    /\ count = 0
    /\ pauses = 0
    /\ collectStage = "idle"
    /\ mainTweets = <<>>
    /\ replies = <<>>
    /\ i = 0
    /\ fetchLog = <<>>
    /\ parentPauses = 0
    /\ parentStage = "idle"
    /\ calls = [n \in {"getProfile", "searchTweets", "getTweet", "saveTweets",
                       "prompt", "logout"} |-> 0]
    /\ analyticsAt = <<>>
    /\ outcome = "none"
    /\ cookieRecord = <<>>
    /\ wireCookies = <<>>
    /\ savedRecord = <<>>
    /\ tweets = <<>>
    /\ report = [status |-> "none"]

\* ------------------------------------------------------------ run: startup
\* validateEnvironment: process.exit(1) when a required variable is missing
validateEnvironment ==
    /\ pc = "validateEnvironment"
    /\ \E missing \in BOOLEAN :
         IF missing
         THEN /\ pc' = "exited"
              /\ outcome' = "exit"
         ELSE /\ pc' = "loadCookies"
              /\ outcome' = outcome
    /\ UNCHANGED <<cfgVars, unitVars, endVars, initVars, collectVars, parentVars, calls,
                   analyticsAt>>

\* ------------------------------------------------------- initializeScraper
\* loadCookies: true only when the file is read, at least one cookie survives
\* and setCookies does not throw; every failure is caught and gives false
loadCookies ==
    /\ pc = "loadCookies"
    /\ \E fileOk \in BOOLEAN, setOk \in BOOLEAN :
         /\ cookiesLoaded' = IF fileOk /\ setOk THEN "true" ELSE "false"
         /\ pc' = IF fileOk /\ setOk THEN "checkSession" ELSE "loginLoop"
         /\ attempt' = IF fileOk /\ setOk THEN attempt ELSE 1
    /\ UNCHANGED <<cfgVars, unitVars, endVars, sessionCheck, ok, authVia, cookieSave, loginCalls,
                   failedAttempts, verified, waits, collectVars, parentVars,
                   calls, analyticsAt, outcome>>

\* if (cookiesLoaded) { try { if (await isLoggedIn()) return true ... } catch }
checkSessionFatal ==
    /\ pc = "checkSession"
    /\ \E r \in {"valid", "invalid", "threw"} :
         /\ sessionCheck' = r
         /\ ok' = IF r = "valid" THEN "true" ELSE IF r = "threw" THEN "false" ELSE ok
         /\ authVia' = IF r = "valid" THEN "cookies" ELSE authVia
         /\ pc' = IF r = "invalid" THEN "loginLoop" ELSE "initReturned"
         /\ attempt' = IF r = "invalid" THEN 1 ELSE attempt
    /\ UNCHANGED <<cfgVars, unitVars, endVars, cookiesLoaded, cookieSave, loginCalls,
                   failedAttempts, verified, waits, collectVars, parentVars,
                   calls, analyticsAt, outcome>>
checkSession ==
    /\ pc = "checkSession"
    /\ \E r \in {"valid", "invalid", "threw"} :
         /\ sessionCheck' = r
         /\ IF r = "valid"
            THEN /\ ok' = "true"
                 /\ authVia' = "cookies"
                 /\ pc' = "initReturned"
                 /\ attempt' = attempt
            ELSE /\ ok' = ok
                 /\ authVia' = authVia
                 /\ pc' = "loginLoop"
                 /\ attempt' = 1
    /\ UNCHANGED <<cfgVars, unitVars, endVars, cookiesLoaded, cookieSave, loginCalls,
                   failedAttempts, verified, waits, collectVars, parentVars,
                   calls, analyticsAt, outcome>>

\* for (...; attempt <= maxRetries; ...) and the return false after the loop
loginLoop ==
    /\ pc = "loginLoop"
    /\ IF attempt <= maxRetries
       THEN /\ pc' = "login"
            /\ ok' = ok
       ELSE /\ pc' = "initReturned"
            /\ ok' = "false"
    /\ UNCHANGED <<cfgVars, unitVars, endVars, cookiesLoaded, sessionCheck, attempt, authVia,
                   cookieSave, loginCalls, failedAttempts, verified, waits,
                   collectVars, parentVars, calls, analyticsAt, outcome>>

\* await this.scraper.login(user, pass, email)
login ==
    /\ pc = "login"
    /\ loginCalls' = loginCalls + 1
    /\ \E throws \in BOOLEAN : pc' = IF throws THEN "loginCatch" ELSE "verify"
    /\ UNCHANGED <<cfgVars, unitVars, endVars, cookiesLoaded, sessionCheck, attempt, ok, authVia,
                   cookieSave, failedAttempts, verified, waits, collectVars,
                   parentVars, calls, analyticsAt, outcome>>

\* if (await this.scraper.isLoggedIn()) ... else throw "Login verification failed"
verify ==
    /\ pc = "verify"
    /\ \E r \in {"valid", "invalid", "threw"} :
         /\ verified' = (r = "valid")
         /\ pc' = IF r = "valid" THEN "saveCookies" ELSE "loginCatch"
    /\ UNCHANGED <<cfgVars, unitVars, endVars, cookiesLoaded, sessionCheck, attempt, ok, authVia,
                   cookieSave, loginCalls, failedAttempts, waits, collectVars,
                   parentVars, calls, analyticsAt, outcome>>

\* await this.saveCookies(); return true -- saveCookies catches its own errors
saveCookiesSkipped ==
    /\ pc = "saveCookies"
    /\ ok' = "true"
    /\ authVia' = "login"
    /\ pc' = "initReturned"
    /\ UNCHANGED <<cfgVars, unitVars, endVars, cookiesLoaded, sessionCheck, attempt, cookieSave,
                   loginCalls, failedAttempts, verified, waits, collectVars,
                   parentVars, calls, analyticsAt, outcome>>
saveCookies ==
    /\ pc = "saveCookies"
    /\ \E r \in {"saved", "failed"} : cookieSave' = r
    /\ ok' = "true"
    /\ authVia' = "login"
    /\ pc' = "initReturned"
    /\ UNCHANGED <<cfgVars, unitVars, endVars, cookiesLoaded, sessionCheck, attempt, loginCalls,
                   failedAttempts, verified, waits, collectVars, parentVars,
                   calls, analyticsAt, outcome>>

\* catch (err) { if (attempt >= maxRetries) return false; await sleep(...) }
loginCatchEarly ==
    /\ pc = "loginCatch"
    /\ failedAttempts' = failedAttempts + 1
    /\ IF attempt >= maxRetries - 1
       THEN /\ ok' = "false"
            /\ pc' = "initReturned"
            /\ waits' = waits
       ELSE /\ ok' = ok
            /\ pc' = "backoff"
            /\ waits' = Append(waits, Backoff(retryDelay, attempt))
    /\ UNCHANGED <<cfgVars, unitVars, endVars, cookiesLoaded, sessionCheck, attempt, authVia,
                   cookieSave, loginCalls, verified, collectVars, parentVars,
                   calls, analyticsAt, outcome>>
loginCatch ==
    /\ pc = "loginCatch"
    /\ failedAttempts' = failedAttempts + 1
    /\ IF attempt >= maxRetries
       THEN /\ ok' = "false"
            /\ pc' = "initReturned"
            /\ waits' = waits
       ELSE /\ ok' = ok
            /\ pc' = "backoff"
            /\ waits' = Append(waits, Backoff(retryDelay, attempt))
    /\ UNCHANGED <<cfgVars, unitVars, endVars, cookiesLoaded, sessionCheck, attempt, authVia,
                   cookieSave, loginCalls, verified, collectVars, parentVars,
                   calls, analyticsAt, outcome>>

\* the timer fires; attempt++
backoffNoAdvance ==
    /\ pc = "backoff"
    /\ pc' = "loginLoop"
    /\ UNCHANGED <<cfgVars, unitVars, endVars, cookiesLoaded, sessionCheck, attempt, ok,
                   authVia, cookieSave, loginCalls, failedAttempts, verified,
                   waits, collectVars, parentVars, calls, analyticsAt, outcome>>
backoff ==
    /\ pc = "backoff"
    /\ attempt' = attempt + 1
    /\ pc' = "loginLoop"
    /\ UNCHANGED <<cfgVars, unitVars, endVars, cookiesLoaded, sessionCheck, ok, authVia,
                   cookieSave, loginCalls, failedAttempts, verified, waits,
                   collectVars, parentVars, calls, analyticsAt, outcome>>

\* const ok = await this.initializeScraper(); if (!ok) { ...; return; }
\* (the locals of initializeScraper end with the call)
initReturnedIgnoreOk ==
    /\ pc = "initReturned"
    /\ pc' = "getProfile"
    /\ cookiesLoaded' = "none"
    /\ sessionCheck' = "none"
    /\ attempt' = 0
    /\ UNCHANGED <<cfgVars, unitVars, endVars, ok, authVia, cookieSave, loginCalls,
                   failedAttempts, verified, waits, collectVars, parentVars,
                   calls, analyticsAt, outcome>>
initReturned ==
    /\ pc = "initReturned"
    /\ IF ok = "true"
       THEN /\ pc' = "getProfile"
            /\ outcome' = outcome
       ELSE /\ pc' = "returned"
            /\ outcome' = "initFailed"
    /\ cookiesLoaded' = "none"
    /\ sessionCheck' = "none"
    /\ attempt' = 0
    /\ UNCHANGED <<cfgVars, unitVars, endVars, ok, authVia, cookieSave, loginCalls,
                   failedAttempts, verified, waits, collectVars, parentVars,
                   calls, analyticsAt>>

\* ------------------------------------------------------- collectMainTweets
\* getProfile (caught on failure), Math.min(...), searchTweets(...)
getProfile ==
    /\ pc = "getProfile"
    /\ \E r \in {-1} \cup (0..MaxProfile) :
         \* r = -1: getProfile throws; r = 0: tweetsCount missing or 0
         /\ profileResult' = IF r = -1 THEN "threw" ELSE "ok"
         /\ totalTweetsForUser' = IF r = -1 THEN 0 ELSE r
         /\ maxWanted' = MaxWanted(maxTweets, totalTweetsForUser')
    /\ calls' = [calls EXCEPT !["getProfile"] = @ + 1,
                              !["searchTweets"] = @ + 1]
    /\ collectStage' = "running"
    /\ pc' = "collectLoop"
    /\ UNCHANGED <<cfgVars, unitVars, endVars, initVars, yielded,
                   exhausted, results, count, pauses, pauseLens, parentVars,
                   analyticsAt, outcome>>

\* one turn of for await (const raw of iterator) { ... }
collectLoop ==
    /\ pc = "collectLoop"
    /\ \/ \* the iterator is done
          /\ exhausted' = TRUE
          /\ pc' = "collectReturn"
          /\ UNCHANGED <<yielded, results, count, pauses, pauseLens, outcome,
                         errorAt>>
       \/ \* the iterator rejects: the error leaves collectMainTweets
          /\ pc' = "cleanup"
          /\ outcome' = "error"
          /\ errorAt' = "searchTweets"
          /\ UNCHANGED <<yielded, exhausted, results, count, pauses,
                         pauseLens>>
       \/ \* the iterator yields raw
          /\ yielded < srcMax
          /\ \E raw \in RawItems :
               /\ yielded' = yielded + 1
               /\ IF raw.id = 0
                  THEN /\ pc' = pc
                       /\ UNCHANGED <<results, count, pauses, pauseLens>>
                  ELSE /\ results' = SetIfAbsent(results, raw)
                       /\ count' = count + 1
                       /\ IF (count + 1) % PauseEvery = 0
                          THEN /\ pauses' = pauses + 1
                               /\ \E ms \in RandomDelay(minDelay, maxDelay) :
                                    pauseLens' = Append(pauseLens, ms)
                          ELSE UNCHANGED <<pauses, pauseLens>>
                       /\ pc' = IF count + 1 >= maxWanted
                                THEN "collectReturn" ELSE pc
          /\ UNCHANGED <<exhausted, outcome, errorAt>>
    /\ UNCHANGED <<cfgVars, unitVars, logoutResult, initVars, profileResult,
                   totalTweetsForUser, maxWanted, collectStage, parentVars,
                   calls, analyticsAt>>

\* return Array.from(results.values()); if (!mainTweets.length) return;
collectReturn ==
    /\ pc = "collectReturn"
    /\ collectStage' = "returned"
    /\ mainTweets' = [k \in 1..Len(results) |->
                        [id |-> results[k].id,
                         inReplyToStatusId |-> results[k].inReplyToStatusId,
                         inReplyToText |-> "unset"]]
    /\ IF Len(results) = 0
       THEN /\ pc' = "returned"
            /\ outcome' = "noTweets"
       ELSE /\ pc' = "savePartial"
            /\ outcome' = outcome
    /\ UNCHANGED <<cfgVars, unitVars, endVars, initVars, profileResult,
                   totalTweetsForUser, maxWanted, yielded, exhausted, results,
                   count, pauses, pauseLens, replies, i, fetchLog,
                   parentPauses, parentStage, calls, analyticsAt>>

\* ---------------------------------------------------- DataOrganizer.saveTweets
\* r = "rawWriteFails": a write before generateAnalytics throws;
\* r = "statsWriteFails": a write after generateAnalytics throws; both rethrow
saveTweetsSwallow(at, next) ==
    /\ pc = at
    /\ calls' = Called("saveTweets")
    /\ \E r \in {"rawWriteFails", "statsWriteFails", "ok"} :
         /\ analyticsAt' = IF r = "rawWriteFails" THEN analyticsAt
                           ELSE Append(analyticsAt, parentStage)
         /\ errorAt' = IF r = "ok" THEN errorAt ELSE at
         /\ pc' = next
         /\ outcome' = outcome
    /\ UNCHANGED <<cfgVars, unitVars, logoutResult, initVars, collectVars, parentVars>>
saveTweets(at, next) ==
    /\ pc = at
    /\ calls' = Called("saveTweets")
    /\ \E r \in {"rawWriteFails", "statsWriteFails", "ok"} :
         /\ analyticsAt' = IF r = "rawWriteFails" THEN analyticsAt
                           ELSE Append(analyticsAt, parentStage)
         /\ IF r = "ok"
            THEN /\ pc' = next
                 /\ outcome' = outcome
                 /\ errorAt' = errorAt
            ELSE /\ pc' = "cleanup"
                 /\ outcome' = "error"
                 /\ errorAt' = at
    /\ UNCHANGED <<cfgVars, unitVars, logoutResult, initVars, collectVars, parentVars>>

\* Logger.info("Saving partial tweets..."); await saveTweets(mainTweets)
savePartialSkipParents == saveTweets("savePartial", "saveFinal")
savePartial == saveTweets("savePartial", "fetchParents")

\* ---------------------------------------------------- fetchAllParentTweets
\* const replies = allTweets.filter(...); if (!replies.length) return;
fetchParents ==
    /\ pc = "fetchParents"
    /\ replies' = Replies(mainTweets, 1)
    /\ i' = 0
    /\ IF Len(replies') = 0
       THEN /\ parentStage' = "done"
            /\ pc' = "saveFinal"
       ELSE /\ parentStage' = "running"
            /\ pc' = "parentLoop"
    /\ UNCHANGED <<cfgVars, unitVars, endVars, initVars, collectVars,
                   mainTweets, fetchLog, parentPauses, calls, analyticsAt,
                   outcome>>

\* one turn of for (const t of replies) { try { getTweet } catch { "" } i++ }
parentLoopWrongIndex ==
    /\ pc = "parentLoop"
    /\ i < Len(replies)
    /\ calls' = Called("getTweet")
    /\ \E r \in {"throws", "notext", "text"} :
         /\ mainTweets' = [mainTweets EXCEPT
                             ![i + 1].inReplyToText = ParentText(r)]
         /\ fetchLog' = Append(fetchLog, r)
    /\ i' = i + 1
    /\ parentPauses' = IF i' % ParentPauseEvery = 0
                       THEN parentPauses + 1 ELSE parentPauses
    /\ IF i' = Len(replies)
       THEN /\ parentStage' = "done"
            /\ pc' = "saveFinal"
       ELSE /\ parentStage' = parentStage
            /\ pc' = pc
    /\ UNCHANGED <<cfgVars, unitVars, endVars, initVars, collectVars,
                   replies, analyticsAt, outcome>>
parentLoop ==
    /\ pc = "parentLoop"
    /\ i < Len(replies)
    /\ calls' = Called("getTweet")
    /\ \E r \in {"throws", "notext", "text"} :
         /\ mainTweets' = [mainTweets EXCEPT
                             ![replies[i + 1]].inReplyToText = ParentText(r)]
         /\ fetchLog' = Append(fetchLog, r)
    /\ i' = i + 1
    /\ parentPauses' = IF i' % ParentPauseEvery = 0
                       THEN parentPauses + 1 ELSE parentPauses
    /\ IF i' = Len(replies)
       THEN /\ parentStage' = "done"
            /\ pc' = "saveFinal"
       ELSE /\ parentStage' = parentStage
            /\ pc' = pc
    /\ UNCHANGED <<cfgVars, unitVars, endVars, initVars, collectVars,
                   replies, analyticsAt, outcome>>

\* ------------------------------------------------------- run: final stages
\* saveFineTuneData begins with await this.dataOrganizer.saveTweets(allTweets)
saveFinal == saveTweets("saveFinal", "writeFineTune")

\* the rest of saveFineTuneData (mkdir, writeFile), then showSampleTweets
writeFineTune ==
    /\ pc = "writeFineTune"
    /\ \E throws \in BOOLEAN :
         IF throws
         THEN /\ pc' = "cleanup"
              /\ outcome' = "error"
              /\ errorAt' = "writeFineTune"
         ELSE /\ pc' = "showSample"
              /\ outcome' = outcome
              /\ errorAt' = errorAt
    /\ UNCHANGED <<cfgVars, unitVars, logoutResult, initVars, collectVars, parentVars,
                   calls, analyticsAt>>

\* await this.showSampleTweets(mainTweets); the prompt may reject
showSample ==
    /\ pc = "showSample"
    /\ calls' = Called("prompt")
    /\ \E throws \in BOOLEAN :
         /\ pc' = "cleanup"
         /\ outcome' = IF throws THEN "error" ELSE "done"
         /\ errorAt' = IF throws THEN "showSample" ELSE errorAt
    /\ UNCHANGED <<cfgVars, unitVars, logoutResult, initVars, collectVars, parentVars,
                   analyticsAt>>

\* cleanup: try { await this.scraper.logout() } catch { warn }
cleanupPropagates ==
    /\ pc = "cleanup"
    /\ calls' = Called("logout")
    /\ pc' = "returned"
    /\ \E throws \in BOOLEAN :
         /\ logoutResult' = IF throws THEN "threw" ELSE "ok"
         /\ outcome' = IF throws THEN "rejected" ELSE outcome
    /\ UNCHANGED <<cfgVars, unitVars, errorAt, initVars, collectVars, parentVars,
                   analyticsAt>>
cleanup ==
    /\ pc = "cleanup"
    /\ calls' = Called("logout")
    /\ pc' = "returned"
    /\ \E throws \in BOOLEAN : logoutResult' = IF throws THEN "threw" ELSE "ok"
    /\ UNCHANGED <<cfgVars, unitVars, errorAt, initVars, collectVars, parentVars,
                   analyticsAt, outcome>>

Next ==
    \/ validateEnvironment
    \/ loadCookies
    \/ checkSession
    \/ loginLoop
    \/ login
    \/ verify
    \/ saveCookies
    \/ loginCatch
    \/ backoff
    \/ initReturned
    \/ getProfile
    \/ collectLoop
    \/ collectReturn
    \/ savePartial
    \/ fetchParents
    \/ parentLoop
    \/ saveFinal
    \/ writeFineTune
    \/ showSample
    \/ cleanup

Spec == Init /\ [][Next]_vars

\* run() as started with RETRY_DELAY and MAX_TWEETS unset, on a source of at
\* most LiveSource items: the length of a backoff wait and the configured cap
\* do not decide whether a loop ends (the timer fires whatever its length,
\* and the cap from the profile still ends the collection loop early)
InitLive ==
    /\ pc = "validateEnvironment"
    /\ maxRetries \in {ParseIntOr(e, DefaultMaxRetries) : e \in 0..MaxRetriesEnv}
    /\ retryDelay = ParseIntOr(0, DefaultRetryDelay)
    /\ maxTweets = ParseIntOr(0, DefaultMaxTweets)
    /\ minDelay = ParseIntOr(0, DefaultMinDelay)
    /\ maxDelay = ParseIntOr(0, DefaultMaxDelay)
    /\ srcMax = LiveSource
    /\ profileResult = "none"
    /\ pauseLens = <<>>
    /\ errorAt = "none"
    /\ logoutResult = "none"
    /\ cookiesLoaded = "none"
    /\ sessionCheck = "none"
    /\ attempt = 0
    /\ ok = "none"
    /\ authVia = "none"
    /\ cookieSave = "none"
    /\ loginCalls = 0
    /\ failedAttempts = 0
    /\ verified = FALSE
    /\ waits = <<>>
    /\ totalTweetsForUser = 0
    /\ maxWanted = 0
    /\ yielded = 0
    /\ exhausted = FALSE
    /\ results = <<>>
    /\ count = 0
    /\ pauses = 0
    /\ collectStage = "idle"
    /\ mainTweets = <<>>
    /\ replies = <<>>
    /\ i = 0
    /\ fetchLog = <<>>
    /\ parentPauses = 0
    /\ parentStage = "idle"
    /\ calls = [n \in {"getProfile", "searchTweets", "getTweet", "saveTweets",
                       "prompt", "logout"} |-> 0]
    /\ analyticsAt = <<>>
    /\ outcome = "none"
    /\ cookieRecord = <<>>
    /\ wireCookies = <<>>
    /\ savedRecord = <<>>
    /\ tweets = <<>>
    /\ report = [status |-> "none"]

\* run() is one logical flow: every await settles (the collaborator returns or
\* throws, the timer fires) and the continuation then runs, so a step that is
\* possible is eventually taken
SpecLive == InitLive /\ [][Next]_vars /\ WF_vars(Next)

\* collectMainTweets on its own, entered as run() enters it after a session
\* was restored from cookies, with the default MAX_TWEETS and a source long
\* enough for the pacing pause to occur
InitPacing ==
    /\ pc = "getProfile"
    /\ maxRetries = ParseIntOr(0, DefaultMaxRetries)
    /\ retryDelay = ParseIntOr(0, DefaultRetryDelay)
    /\ maxTweets = ParseIntOr(0, DefaultMaxTweets)
    /\ minDelay \in {ParseIntOr(e, DefaultMinDelay) : e \in 0..MaxPaceEnv}
    /\ maxDelay \in {ParseIntOr(e, DefaultMaxDelay) : e \in 0..MaxPaceEnv}
    /\ srcMax = PacingSource
    /\ profileResult = "none"
    /\ pauseLens = <<>>
    /\ errorAt = "none"
    /\ logoutResult = "none"
    /\ cookiesLoaded = "none"
    /\ sessionCheck = "none"
    /\ attempt = 0
    /\ ok = "true"
    /\ authVia = "cookies"
    /\ cookieSave = "none"
    /\ loginCalls = 0
    /\ failedAttempts = 0
    /\ verified = FALSE
    /\ waits = <<>>
    /\ totalTweetsForUser = 0
    /\ maxWanted = 0
    /\ yielded = 0
    /\ exhausted = FALSE
    /\ results = <<>>
    /\ count = 0
    /\ pauses = 0
    /\ collectStage = "idle"
    /\ mainTweets = <<>>
    /\ replies = <<>>
    /\ i = 0
    /\ fetchLog = <<>>
    /\ parentPauses = 0
    /\ parentStage = "idle"
    /\ calls = [n \in {"getProfile", "searchTweets", "getTweet", "saveTweets",
                       "prompt", "logout"} |-> 0]
    /\ analyticsAt = <<>>
    /\ outcome = "none"
    /\ cookieRecord = <<>>
    /\ wireCookies = <<>>
    /\ savedRecord = <<>>
    /\ tweets = <<>>
    /\ report = [status |-> "none"]

NextPacing ==
    \/ getProfile
    \/ collectLoop
    \/ collectReturn

SpecPacing == InitPacing /\ [][NextPacing]_vars

\* ------------------------------------------------- the cookie file mappings
\* a pipeline on which run() has not been called: the state after construction
\* with no setting in the environment
RunIdle ==
    /\ maxRetries = ParseIntOr(0, DefaultMaxRetries)
    /\ retryDelay = ParseIntOr(0, DefaultRetryDelay)
    /\ maxTweets = ParseIntOr(0, DefaultMaxTweets)
    /\ minDelay = ParseIntOr(0, DefaultMinDelay)
    /\ maxDelay = ParseIntOr(0, DefaultMaxDelay)
    /\ srcMax = MaxSource
    /\ profileResult = "none"
    /\ pauseLens = <<>>
    /\ errorAt = "none"
    /\ logoutResult = "none"
    /\ cookiesLoaded = "none"
    /\ sessionCheck = "none"
    /\ attempt = 0
    /\ ok = "none"
    /\ authVia = "none"
    /\ cookieSave = "none"
    /\ loginCalls = 0
    /\ failedAttempts = 0
    /\ verified = FALSE
    /\ waits = <<>>
    /\ totalTweetsForUser = 0
    /\ maxWanted = 0
    /\ yielded = 0
    /\ exhausted = FALSE
    /\ results = <<>>
    /\ count = 0
    /\ pauses = 0
    /\ collectStage = "idle"
    /\ mainTweets = <<>>
    /\ replies = <<>>
    /\ i = 0
    /\ fetchLog = <<>>
    /\ parentPauses = 0
    /\ parentStage = "idle"
    /\ calls = [n \in {"getProfile", "searchTweets", "getTweet", "saveTweets",
                       "prompt", "logout"} |-> 0]
    /\ analyticsAt = <<>>
    /\ outcome = "none"

\* strings are "" when the property is missing or empty; a cookie value is a
\* sequence of characters, "Q" standing for the double quote; a flag is
\* "true", "false" or "undefined"
ValueChars == {"Q", "a"}
CookieValues == UNION {[1..n -> ValueChars] : n \in 0..MaxValueLen}
Flags == {"true", "false", "undefined"}

\* entries of a cookie file: every combination of the two flags, of domain
\* and path, of key and name, and every value, each on an otherwise fixed
\* cookie (the last two on a cookie in the form saveCookies writes)
CookieEntries ==
    [key : {"ct0"}, name : {""}, value : {<<"a">>},
     domain : {"x.com"}, path : {"/i"},
     secure : Flags, httpOnly : Flags]
    \cup
    [key : {"ct0"}, name : {""}, value : {<<"a">>},
     domain : {"", "x.com"}, path : {"", "/i"},
     secure : {"false"}, httpOnly : {"true"}]
    \cup
    [key : {"", "ct0"}, name : {"", "n"}, value : {<<"a">>},
     domain : {"twitter.com"}, path : {"/"},
     secure : {"true"}, httpOnly : {"false"}]
    \cup
    [key : {"ct0"}, name : {""}, value : CookieValues,
     domain : {"twitter.com"}, path : {"/"},
     secure : {"true"}, httpOnly : {"false"}]

\* a || b on strings
Or(a, b) == IF a = "" THEN b ELSE a

\* a ?? b on flags
Nullish(a, b) == IF a = "undefined" THEN b ELSE a

\* if (value.startsWith('"') && value.endsWith('"') && value.length > 1)
\*   value = value.slice(1, -1)
UnquoteAlways(v) == IF Len(v) > 1 THEN SubSeq(v, 2, Len(v) - 1) ELSE v
Unquote(v) ==
    IF Len(v) > 1 /\ v[1] = "Q" /\ v[Len(v)] = "Q"
    THEN SubSeq(v, 2, Len(v) - 1)
    ELSE v

\* parts.join("; "): the name=value pair and the attributes of a Set-Cookie
\* string, in order
SetCookieStringNoDomain(key, value, domain, path, secure, httpOnly) ==
    [pair |-> [name |-> key, value |-> value],
     attrs |-> << <<"Path", path>> >>
               \o (IF secure = "true" THEN << <<"Secure", "">> >> ELSE <<>>)
               \o (IF httpOnly = "true" THEN << <<"HttpOnly", "">> >> ELSE <<>>)]
SetCookieString(key, value, domain, path, secure, httpOnly) ==
    [pair |-> [name |-> key, value |-> value],
     attrs |-> << <<"Domain", domain>>, <<"Path", path>> >>
               \o (IF secure = "true" THEN << <<"Secure", "">> >> ELSE <<>>)
               \o (IF httpOnly = "true" THEN << <<"HttpOnly", "">> >> ELSE <<>>)]

\* the body of arr.map((c) => ...) in loadCookies; <<>> stands for null
LoadEntry(c) ==
    LET key == Or(c.key, c.name)
        value == Unquote(c.value)
    IN  IF key = "" \/ value = <<>>
        THEN <<>>
        ELSE << SetCookieString(key, value,
                                Or(c.domain, "twitter.com"),
                                Or(c.path, "/"),
                                Nullish(c.secure, "true"),
                                Nullish(c.httpOnly, "false")) >>

\* arr.map(...).filter(Boolean)
RECURSIVE LoadEntries(_)
LoadEntries(arr) ==
    IF arr = <<>> THEN <<>>
    ELSE LoadEntry(Head(arr)) \o LoadEntries(Tail(arr))

\* the cookie the jar holds for a Set-Cookie string: its attributes by name
HasAttr(str, a) == \E k \in 1..Len(str.attrs) : str.attrs[k][1] = a
AttrValue(str, a) ==
    IF HasAttr(str, a)
    THEN str.attrs[CHOOSE k \in 1..Len(str.attrs) : str.attrs[k][1] = a][2]
    ELSE ""
JarCookie(str) ==
    [key |-> str.pair.name, value |-> str.pair.value,
     domain |-> AttrValue(str, "Domain"), path |-> AttrValue(str, "Path"),
     secure |-> IF HasAttr(str, "Secure") THEN "true" ELSE "false",
     httpOnly |-> IF HasAttr(str, "HttpOnly") THEN "true" ELSE "false"]

\* the body of agentCookies.map((c) => ...) in saveCookies; <<>> for null
SaveEntry(c) ==
    IF c.key = "" \/ c.value = <<>>
    THEN <<>>
    ELSE << [key |-> c.key, value |-> c.value,
             domain |-> Or(c.domain, "twitter.com"),
             path |-> Or(c.path, "/"),
             secure |-> "true", httpOnly |-> "false"] >>

RECURSIVE SaveEntries(_)
SaveEntries(jar) ==
    IF jar = <<>> THEN <<>>
    ELSE SaveEntry(Head(jar)) \o SaveEntries(Tail(jar))

InitCodec ==
    /\ RunIdle
    /\ pc = "codecLoad"
    /\ \E n \in 0..MaxCookies :
           \E f \in [1..n -> CookieEntries] : cookieRecord = f
    /\ wireCookies = <<>>
    /\ savedRecord = <<>>
    /\ tweets = <<>>
    /\ report = [status |-> "none"]

\* loadCookies on the parsed file: setCookies is reached only when a cookie
\* survives, otherwise the method throws to its own catch and returns false
codecLoad ==
    /\ pc = "codecLoad"
    /\ LET setCookieStrings == LoadEntries(cookieRecord)
       IN  wireCookies' = [k \in 1..Len(setCookieStrings) |->
                             JarCookie(setCookieStrings[k])]
    /\ pc' = "codecSave"
    /\ UNCHANGED <<runVars, cookieRecord, savedRecord, tweets, report>>

\* saveCookies on the jar: the file is written only when an entry survives
codecSave ==
    /\ pc = "codecSave"
    /\ savedRecord' = SaveEntries(wireCookies)
    /\ pc' = "codecDone"
    /\ UNCHANGED <<runVars, cookieRecord, wireCookies, tweets, report>>

NextCodec ==
    \/ codecLoad
    \/ codecSave

SpecCodec == InitCodec /\ [][NextCodec]_vars

\* ============================================================ generateAnalytics
\* DataOrganizer.generateAnalytics is a pure function of the tweet array.  A
\* tweet is a record of the fields the function reads; a number field that is
\* missing on the object holds Undefined, a timestamp that is null holds Null.

MaxCorpus == 7      \* longest array whose tweets vary in likes only
MaxShort == 3       \* longest array whose tweets vary in the other fields
TopN == 5           \* .slice(0, 5)
TextLimit == 100    \* t.text.slice(0, 100)
MsPerDay == 86400000  \* format(new Date(ms), 'yyyy-MM-dd') keeps the day only
Undefined == -1
Null == -2

\* (x || 0) on a count: undefined and 0 both give 0
OrZero(x) == IF x = Undefined THEN 0 ELSE x

\* t.photos?.length > 0 (undefined > 0 is false)
NonEmpty(len) == len # Undefined /\ len > 0

\* !t.photos?.length (undefined and 0 are falsy)
Falsy(len) == len = Undefined \/ len = 0

RankedFields ==
    [likes : {Undefined, 0, 1, 2}, isRetweet : {FALSE}, isReply : {FALSE},
     retweetCount : {Undefined}, replies : {Undefined},
     timestamp : {0}, textLen : {120},
     photos : {Undefined}, videos : {Undefined}, urls : {Undefined}]

ExampleFields ==
    [likes : {10, 20, 30}, isRetweet : {FALSE}, isReply : {FALSE},
     retweetCount : {0}, replies : {0},
     timestamp : {0}, textLen : {120},
     photos : {Undefined}, videos : {Undefined}, urls : {Undefined}]

SummedFields ==
    [likes : {10, 30}, isRetweet : BOOLEAN, isReply : {FALSE},
     retweetCount : {Undefined, 2}, replies : {Undefined, 3},
     timestamp : {0}, textLen : {120},
     photos : {Undefined}, videos : {Undefined}, urls : {Undefined}]

DatedFields ==
    [likes : {100}, isRetweet : BOOLEAN, isReply : BOOLEAN,
     retweetCount : {0}, replies : {0},
     timestamp : {Null, Undefined, 0, MsPerDay - 1, 2 * MsPerDay},
     textLen : {3},
     photos : {Undefined}, videos : {Undefined}, urls : {Undefined}]

MediaFields ==
    [likes : {1}, isRetweet : {FALSE}, isReply : {FALSE},
     retweetCount : {0}, replies : {0},
     timestamp : {0}, textLen : {120},
     photos : {Undefined, 0, 1}, videos : {Undefined, 1}, urls : {0, 1}]

TextFields ==
    [likes : {1, 5}, isRetweet : BOOLEAN, isReply : {FALSE},
     retweetCount : {0}, replies : {0},
     timestamp : {0}, textLen : {Undefined, 3, 120},
     photos : {Undefined}, videos : {Undefined}, urls : {Undefined}]

\* the array of the tweets with fields f[1], f[2], ...; the id (and the
\* permanentUrl) of a tweet is its position in the array
Corpus(f) ==
    [k \in 1..Len(f) |->
        [id |-> k, permanentUrl |-> k, likes |-> f[k].likes,
         isRetweet |-> f[k].isRetweet, isReply |-> f[k].isReply,
         retweetCount |-> f[k].retweetCount, replies |-> f[k].replies,
         timestamp |-> f[k].timestamp, textLen |-> f[k].textLen,
         photos |-> f[k].photos, videos |-> f[k].videos,
         urls |-> f[k].urls]]

\* tweets.filter((t) => t.timestamp !== null).map((t) => t.timestamp)
RECURSIVE ValidStamps(_)
ValidStamps(tw) ==
    IF tw = <<>> THEN <<>>
    ELSE IF Head(tw).timestamp # Null
         THEN <<Head(tw).timestamp>> \o ValidStamps(Tail(tw))
         ELSE ValidStamps(Tail(tw))

\* one step of .sort((a, b) => a - b): Array.prototype.sort never calls the
\* comparator on undefined and places every undefined after the numbers
InsertStamp(out, x) ==
    LET after == {j \in 1..Len(out) :
                    x # Undefined /\ (out[j] = Undefined \/ out[j] > x)}
        p == IF after = {} THEN Len(out) + 1
             ELSE CHOOSE j \in after : \A q \in after : j <= q
    IN  SubSeq(out, 1, p - 1) \o <<x>> \o SubSeq(out, p, Len(out))

RECURSIVE SortStamps(_)
SortStamps(s) ==
    IF s = <<>> THEN <<>>
    ELSE InsertStamp(SortStamps(SubSeq(s, 1, Len(s) - 1)), s[Len(s)])

TweetsForEngagementAll(tw) == tw

\* tweets.filter((t) => !t.isRetweet)
TweetsForEngagement(tw) == SelectSeq(tw, LAMBDA t : ~t.isRetweet)

RECURSIVE SumLikes(_)
SumLikes(tw) ==
    IF tw = <<>> THEN 0 ELSE OrZero(Head(tw).likes) + SumLikes(Tail(tw))

RECURSIVE SumRetweetCount(_)
SumRetweetCount(tw) ==
    IF tw = <<>> THEN 0
    ELSE OrZero(Head(tw).retweetCount) + SumRetweetCount(Tail(tw))

RECURSIVE SumReplies(_)
SumReplies(tw) ==
    IF tw = <<>> THEN 0 ELSE OrZero(Head(tw).replies) + SumReplies(Tail(tw))

\* the string "0.00"
ZeroFixed == [nan |-> FALSE, whole |-> 0, cents |-> 0]

\* (sum / n).toFixed(2): the digits before and after the point, rounded to the
\* nearest hundredth; 0 / 0 is NaN and NaN.toFixed(2) is the string "NaN"
ToFixed2(sum, n) ==
    IF n = 0 THEN [nan |-> TRUE, whole |-> 0, cents |-> 0]
    ELSE LET hundredths == (200 * sum + n) \div (2 * n)
         IN  [nan |-> FALSE, whole |-> hundredths \div 100,
              cents |-> hundredths % 100]

InsertByLikesUnstable(out, x) ==
    LET after == {j \in 1..Len(out) :
                    OrZero(out[j].likes) <= OrZero(x.likes)}
        p == IF after = {} THEN Len(out) + 1
             ELSE CHOOSE j \in after : \A q \in after : j <= q
    IN  SubSeq(out, 1, p - 1) \o <<x>> \o SubSeq(out, p, Len(out))

\* one step of .sort((a, b) => (b.likes || 0) - (a.likes || 0)): the sort is
\* stable, so x goes before the first tweet with strictly fewer likes
InsertByLikes(out, x) ==
    LET after == {j \in 1..Len(out) :
                    OrZero(out[j].likes) < OrZero(x.likes)}
        p == IF after = {} THEN Len(out) + 1
             ELSE CHOOSE j \in after : \A q \in after : j <= q
    IN  SubSeq(out, 1, p - 1) \o <<x>> \o SubSeq(out, p, Len(out))

RECURSIVE SortByLikes(_)
SortByLikes(tw) ==
    IF tw = <<>> THEN <<>>
    ELSE InsertByLikes(SortByLikes(SubSeq(tw, 1, Len(tw) - 1)), tw[Len(tw)])

\* .slice(0, n)
Slice(s, n) == SubSeq(s, 1, Min(Len(s), n))

\* the object built per top tweet; text is the length of the sliced string
TopEntry(t) ==
    [id |-> t.id, text |-> Min(t.textLen, TextLimit), likes |-> t.likes,
     retweetCount |-> t.retweetCount, url |-> t.permanentUrl]

\* format(new Date(ms), 'yyyy-MM-dd')
FormatDate(ms) == [na |-> FALSE, day |-> ms \div MsPerDay]

\* the string 'N/A'
NotAvailable == [na |-> TRUE, day |-> 0]

GenerateAnalytics(tw) ==
    IF Len(tw) = 0
    THEN [status |-> "ok",
          totalTweets |-> 0, directTweets |-> 0, replies |-> 0,
          retweets |-> 0,
          engagement |-> [totalLikes |-> 0, totalRetweetCount |-> 0,
                          totalReplies |-> 0, averageLikes |-> ZeroFixed,
                          topTweets |-> <<>>],
          timeRange |-> [start |-> NotAvailable, end |-> NotAvailable],
          contentTypes |-> [withImages |-> 0, withVideos |-> 0,
                            withLinks |-> 0, textOnly |-> 0]]
    ELSE
    LET validDates == SortStamps(ValidStamps(tw))
        tweetsForEngagement == TweetsForEngagement(tw)
        top == Slice(SortByLikes(tweetsForEngagement), TopN)
        \* undefined.slice(...) is a TypeError
        textThrows == \E k \in 1..Len(top) : top[k].textLen = Undefined
        \* date-fns format throws a RangeError on new Date(undefined)
        dateThrows ==
            /\ Len(validDates) > 0
            /\ \/ validDates[1] = Undefined
               \/ validDates[Len(validDates)] = Undefined
    IN  IF textThrows \/ dateThrows THEN [status |-> "threw"]
        ELSE
        [status |-> "ok",
         totalTweets |-> Len(tw),
         directTweets |->
             Len(SelectSeq(tw, LAMBDA t : ~t.isReply /\ ~t.isRetweet)),
         replies |-> Len(SelectSeq(tw, LAMBDA t : t.isReply)),
         retweets |-> Len(SelectSeq(tw, LAMBDA t : t.isRetweet)),
         engagement |->
             [totalLikes |-> SumLikes(tweetsForEngagement),
              totalRetweetCount |-> SumRetweetCount(tweetsForEngagement),
              totalReplies |-> SumReplies(tweetsForEngagement),
              averageLikes |-> ToFixed2(SumLikes(tweetsForEngagement),
                                        Len(tweetsForEngagement)),
              topTweets |-> [k \in 1..Len(top) |-> TopEntry(top[k])]],
         timeRange |->
             [start |-> IF Len(validDates) > 0
                        THEN FormatDate(validDates[1]) ELSE NotAvailable,
              end |-> IF Len(validDates) > 0
                      THEN FormatDate(validDates[Len(validDates)])
                      ELSE NotAvailable],
         contentTypes |->
             [withImages |-> Len(SelectSeq(tw, LAMBDA t : NonEmpty(t.photos))),
              withVideos |-> Len(SelectSeq(tw, LAMBDA t : NonEmpty(t.videos))),
              withLinks |-> Len(SelectSeq(tw, LAMBDA t : NonEmpty(t.urls))),
              textOnly |-> Len(SelectSeq(tw, LAMBDA t : /\ Falsy(t.photos)
                                                     /\ Falsy(t.videos)
                                                     /\ Falsy(t.urls)))]]

InitAnalytics ==
    /\ RunIdle
    /\ pc = "generateAnalytics"
    /\ cookieRecord = <<>>
    /\ wireCookies = <<>>
    /\ savedRecord = <<>>
    /\ \/ \E m \in 0..MaxCorpus :
              \E f \in [1..m -> RankedFields] : tweets = Corpus(f)
       \/ \E m \in 0..MaxShort :
              \E f \in [1..m -> ExampleFields] : tweets = Corpus(f)
       \/ \E m \in 0..MaxShort :
              \E f \in [1..m -> SummedFields] : tweets = Corpus(f)
       \/ \E m \in 0..MaxShort :
              \E f \in [1..m -> DatedFields] : tweets = Corpus(f)
       \/ \E m \in 0..MaxShort :
              \E f \in [1..m -> MediaFields] : tweets = Corpus(f)
       \/ \E m \in 0..MaxShort :
              \E f \in [1..m -> TextFields] : tweets = Corpus(f)
    /\ report = [status |-> "none"]

generateAnalytics ==
    /\ pc = "generateAnalytics"
    /\ report' = GenerateAnalytics(tweets)
    /\ pc' = "analyticsReturned"
    /\ UNCHANGED <<runVars, cookieRecord, wireCookies, savedRecord, tweets>>

NextAnalytics == generateAnalytics

SpecAnalytics == InitAnalytics /\ [][NextAnalytics]_vars

\* ================================================================== claims
CollectedIds == {results[k].id : k \in 1..Len(results)}

\* C1: the posts collected by collectMainTweets, and the array it returns,
\* never hold two posts with the same id nor a post without an id, and the
\* set of collected ids never shrinks during the loop.
C1_UniqueIdsNeverShrink ==
    /\ [](/\ \A a, b \in 1..Len(results) :
               a # b => results[a].id # results[b].id
          /\ \A k \in 1..Len(results) : results[k].id # 0
          /\ \A a, b \in 1..Len(mainTweets) :
               a # b => mainTweets[a].id # mainTweets[b].id
          /\ \A k \in 1..Len(mainTweets) : mainTweets[k].id # 0)
    /\ [][/\ CollectedIds \subseteq CollectedIds'
          /\ Len(results') >= Len(results)]_vars

\* a duplicate id and an item without an id were both yielded and absorbed
C1_Witness ==
    /\ collectStage = "returned"
    /\ Len(mainTweets) = 1
    /\ count = 2
    /\ yielded = 3

\* C2: the counter compared against maxWanted advances only on a new
\* insertion, so the loop ends only when the source is exhausted or the
\* number of distinct collected posts equals maxWanted.
C2_CountsOnlyInserted ==
    /\ count = Len(results)
    /\ pc = "collectReturn" => (exhausted \/ Len(results) = maxWanted)

\* C3: login is invoked at most maxRetries times, never after a verified
\* attempt, and false is returned only after exactly maxRetries failed attempts.
C3_LoginRetriesBounded ==
    /\ [](/\ loginCalls <= maxRetries
          /\ failedAttempts <= loginCalls
          /\ ok = "false" =>
               (loginCalls = maxRetries /\ failedAttempts = maxRetries
                /\ ~verified))
    /\ [][verified => loginCalls' = loginCalls]_vars

C3_Witness ==
    /\ ok = "false"
    /\ maxRetries >= 2
    /\ loginCalls = maxRetries

\* C4: the wait before attempt n (2 <= n <= maxRetries) is retryDelay * (n-1),
\* attempt 1 is preceded by no wait, and no wait follows the final failed
\* attempt.
C4_LinearBackoff ==
    /\ \A n \in 1..Len(waits) : waits[n] = retryDelay * n
    /\ pc \in {"login", "verify", "saveCookies", "loginCatch"} =>
         Len(waits) = attempt - 1
    /\ pc = "backoff" => Len(waits) = attempt
    /\ Len(waits) <= maxRetries - 1
    /\ ok = "false" => Len(waits) = maxRetries - 1

C4_Witness ==
    /\ pc = "login"
    /\ attempt = 3
    /\ retryDelay = DefaultRetryDelay
    /\ waits = <<3000, 6000>>

\* C5 (as stated): parent resolution never begins before collectMainTweets has
\* returned, and generateAnalytics never runs before parent resolution is done.
C5_AnalyticsOnlyAfterParents ==
    /\ parentStage # "idle" => collectStage = "returned"
    /\ \A k \in 1..Len(analyticsAt) : analyticsAt[k] = "done"

\* C5 (amended): parent resolution never begins before collectMainTweets has
\* returned; generateAnalytics runs at most twice, never while parent
\* resolution is in progress: first on the partial save, before parent
\* resolution begins, then on the final save, after it is done for the batch.
C5_StagesSequential ==
    /\ parentStage # "idle" => collectStage = "returned"
    /\ Len(analyticsAt) >= 1 => collectStage = "returned"
    /\ Len(analyticsAt) <= 2
    /\ Len(analyticsAt) >= 1 => analyticsAt[1] = "idle"
    /\ Len(analyticsAt) = 2 => analyticsAt[2] = "done"
    /\ parentStage = "running" => Len(analyticsAt) = 1
    /\ outcome = "done" => Len(analyticsAt) = 2

C5_Witness ==
    /\ outcome = "done"
    /\ Len(replies) = 2
    /\ Len(analyticsAt) = 2

\* C6: every run() that gets past credential validation attempts
\* scraper.logout before it returns.
C6_AlwaysCleanup == pc = "returned" => calls["logout"] >= 1

\* C7: a reply whose parent fetch throws or has no text gets inReplyToText = "",
\* a failing fetch never ends the batch or the run, and every reply of the
\* batch has been processed when fetchAllParentTweets is done.
C7_ParentFailureIsLocal ==
    /\ [](/\ \A k \in 1..Len(fetchLog) :
               /\ fetchLog[k] \in {"throws", "notext"} =>
                    mainTweets[replies[k]].inReplyToText = ""
               /\ fetchLog[k] = "text" =>
                    mainTweets[replies[k]].inReplyToText = "text"
          /\ Len(fetchLog) = i
          /\ parentStage = "done" =>
               /\ replies = Replies(mainTweets, 1)
               /\ Len(fetchLog) = Len(replies))
    /\ [][pc = "parentLoop" =>
            /\ pc' \in {"parentLoop", "saveFinal"}
            /\ outcome' = outcome
            /\ i' = i + 1]_vars

\* the first of two replies failed and the second was still resolved
C7_Witness ==
    /\ parentStage = "done"
    /\ fetchLog = <<"throws", "text">>
    /\ outcome = "done"

\* C8: loaded cookies that isLoggedIn accepts give true without any login
\* call; a failed cookie load, or isLoggedIn false or throwing, is not fatal
\* and leads into the fresh-login retry loop.
C8_SessionStateMachine ==
    /\ [](/\ (cookiesLoaded = "true" /\ sessionCheck = "valid") =>
               (ok = "true" /\ authVia = "cookies" /\ loginCalls = 0)
          /\ authVia = "cookies" => loginCalls = 0
          /\ (pc = "initReturned" /\
              (cookiesLoaded = "false" \/ sessionCheck \in {"invalid", "threw"}))
               => loginCalls >= 1)
    /\ [][(\/ (pc = "loadCookies" /\ cookiesLoaded' = "false")
           \/ (pc = "checkSession" /\ sessionCheck' \in {"invalid", "threw"}))
          => (pc' = "loginLoop" /\ attempt' = 1 /\ ok' = "none"
              /\ outcome' = "none")]_vars

C8_Witness ==
    /\ pc = "initReturned"
    /\ sessionCheck = "threw"
    /\ ok = "true"
    /\ authVia = "login"

\* C9: once initializeScraper has returned false, none of getProfile,
\* searchTweets, getTweet, saveTweets is invoked and no login is retried.
C9_FailedIsTerminal ==
    /\ [](ok = "false" =>
            /\ calls["getProfile"] = 0
            /\ calls["searchTweets"] = 0
            /\ calls["getTweet"] = 0
            /\ calls["saveTweets"] = 0
            /\ pc \in {"initReturned", "returned"})
    /\ [][ok = "false" => (loginCalls' = loginCalls /\ ok' = "false")]_vars

C9_Witness ==
    /\ pc = "returned"
    /\ outcome = "initFailed"
    /\ ok = "false"

\* C10 (as stated): initializeScraper returns true through the fresh-login
\* path only after the session record was successfully persisted.
C10_AuthenticatedOnlyIfSaved ==
    (ok = "true" /\ authVia = "login") => cookieSave = "saved"

\* C10 (amended): initializeScraper returns true through the fresh-login path
\* only after a verified login and an attempt to save the cookies; a failed
\* save is swallowed and the run is authenticated all the same.
C10_AuthenticatedAfterSaveAttempt ==
    /\ (ok = "true" /\ authVia = "login") =>
         (verified /\ cookieSave \in {"saved", "failed"})
    /\ cookieSave = "failed" => (ok = "true" /\ authVia = "login")

C10_Witness ==
    /\ pc = "getProfile"
    /\ authVia = "login"
    /\ cookieSave = "failed"

\* C12 (as stated): collectMainTweets never returns more posts than its cap,
\* which is min(maxTweets, reported count) whenever the profile lookup
\* succeeds (a reported count of 0 included) and maxTweets when it throws.
C12_CapIsMinOfReported ==
    collectStage = "returned" =>
        Len(mainTweets) <= (IF profileResult = "ok"
                            THEN Min(maxTweets, totalTweetsForUser)
                            ELSE maxTweets)

\* C12 (amended): collectMainTweets never returns more posts than its cap,
\* which is min(maxTweets, reported count) when the lookup reports a positive
\* count, and maxTweets when the lookup throws or reports 0 or no count; a
\* throwing lookup does not stop the collection.
C12_CapRespected ==
    /\ collectStage # "idle" =>
         /\ maxWanted = (IF profileResult = "ok" /\ totalTweetsForUser > 0
                         THEN Min(maxTweets, totalTweetsForUser)
                         ELSE maxTweets)
         /\ Len(results) <= maxWanted
         /\ Len(mainTweets) <= maxWanted
         /\ calls["searchTweets"] = 1
    /\ (profileResult = "threw" /\ errorAt = "none") => outcome # "error"

C12_Witness ==
    /\ collectStage = "returned"
    /\ profileResult = "ok"
    /\ totalTweetsForUser = 1
    /\ maxTweets = DefaultMaxTweets
    /\ Len(mainTweets) = 1
    /\ ~exhausted

\* C17: when a saveTweets call fails the error reaches run(): no later stage
\* (parent resolution, final save, sample prompt) executes, and logout is
\* attempted before run() returns.
C17_SaveFailureIsFatal ==
    /\ errorAt \in {"savePartial", "saveFinal"} =>
         /\ outcome = "error"
         /\ pc \in {"cleanup", "returned"}
         /\ calls["prompt"] = 0
         /\ pc = "returned" => calls["logout"] = 1
    /\ errorAt = "savePartial" =>
         /\ parentStage = "idle"
         /\ calls["getTweet"] = 0
         /\ calls["saveTweets"] = 1
         /\ \A k \in 1..Len(mainTweets) : mainTweets[k].inReplyToText = "unset"
    /\ errorAt = "saveFinal" => calls["saveTweets"] = 2

C17_Witness ==
    /\ errorAt = "savePartial"
    /\ pc = "returned"
    /\ Len(Replies(mainTweets, 1)) >= 1
    /\ calls["logout"] = 1

\* C18: a throwing logout is caught inside cleanup: run() is never rejected
\* by it and the outcome reached before cleanup (success or the fatal error
\* already reported) is left as it was.
C18_LogoutFailureSwallowed ==
    /\ [](/\ outcome # "rejected"
          /\ logoutResult # "none" => (pc = "returned" /\ calls["logout"] = 1))
    /\ [][pc = "cleanup" =>
            /\ pc' = "returned"
            /\ outcome' = outcome
            /\ errorAt' = errorAt]_vars

C18_Witness ==
    /\ logoutResult = "threw"
    /\ outcome = "error"
    /\ errorAt = "saveFinal"

\* C20: fetchAllParentTweets keeps the posts and their order, leaves every
\* non-reply post as it was, changes only inReplyToText of replies, calls
\* getTweet once per reply, and leaves every reply with a string.
C20_ParentFetchFrame ==
    /\ [](parentStage # "idle" =>
            /\ Len(mainTweets) = Len(results)
            /\ \A k \in 1..Len(mainTweets) :
                 /\ mainTweets[k].id = results[k].id
                 /\ mainTweets[k].inReplyToStatusId =
                      results[k].inReplyToStatusId
                 /\ results[k].inReplyToStatusId = 0 =>
                      mainTweets[k].inReplyToText = "unset"
            /\ calls["getTweet"] = i
            /\ \A a, b \in 1..Len(replies) : a < b => replies[a] < replies[b]
            /\ parentStage = "done" =>
                 /\ calls["getTweet"] = Len(Replies(mainTweets, 1))
                 /\ \A k \in 1..Len(mainTweets) :
                      mainTweets[k].inReplyToStatusId # 0 =>
                        mainTweets[k].inReplyToText \in {"", "text"})
    /\ [][pc = "parentLoop" =>
            \E k \in 1..Len(mainTweets) :
              /\ mainTweets[k].inReplyToStatusId # 0
              /\ mainTweets[k].inReplyToText = "unset"
              /\ \A j \in 1..Len(mainTweets) :
                   j # k => mainTweets'[j] = mainTweets[j]]_vars

\* a non-reply followed by a reply whose parent was fetched
C20_Witness ==
    /\ parentStage = "done"
    /\ Len(mainTweets) = 2
    /\ mainTweets[1].inReplyToStatusId = 0
    /\ mainTweets[2].inReplyToText = "text"

\* C19: collectMainTweets pauses exactly when the number of accepted (newly
\* inserted) posts reaches a positive multiple of 100, so after accepting k
\* posts it has paused floor(k / 100) times, and every pause length is an
\* integer of [minDelay, maxDelay].
C19_PauseEveryHundredAccepted ==
    /\ pauses = Len(results) \div PauseEvery
    /\ Len(pauseLens) = pauses
    /\ \A k \in 1..Len(pauseLens) :
         minDelay <= pauseLens[k] /\ pauseLens[k] <= maxDelay

NoneFiltered ==
    /\ Len(wireCookies) = Len(cookieRecord)
    /\ Len(savedRecord) = Len(cookieRecord)

SameCookie(c, d) ==
    /\ d.key = c.key
    /\ d.value = c.value
    /\ d.domain = c.domain
    /\ d.path = c.path
    /\ d.secure = c.secure
    /\ d.httpOnly = c.httpOnly

\* the form of the entries saveCookies writes
SavedForm(c) ==
    /\ c.key # ""
    /\ c.value # <<>>
    /\ Unquote(c.value) = c.value
    /\ c.domain # ""
    /\ c.path # ""
    /\ c.secure = "true"
    /\ c.httpOnly = "false"

\* an entry with all six fields of a session record, its value not quoted
FullEntry(c) ==
    /\ c.key # ""
    /\ Unquote(c.value) = c.value
    /\ c.domain # ""
    /\ c.path # ""
    /\ c.secure # "undefined"
    /\ c.httpOnly # "undefined"

\* C11 (as stated): a record none of whose entries is filtered out comes back
\* from the loadCookies mapping followed by the saveCookies mapping with the
\* same key, value, domain, path, secure and httpOnly in every entry, for
\* all combinations of the secure and httpOnly flags.
C11_RoundTripAllFlags ==
    (pc = "codecDone" /\ NoneFiltered) =>
        \A k \in 1..Len(cookieRecord) :
            FullEntry(cookieRecord[k]) =>
                SameCookie(cookieRecord[k], savedRecord[k])

\* C11 (amended): a record none of whose entries is filtered out comes back
\* with, in every entry, the key (or name), the value without one layer of
\* surrounding quotes, the domain and path (twitter.com and / when missing),
\* secure = true and httpOnly = false whatever the flags were; the six fields
\* are all the same for entries in the form saveCookies writes (key, value,
\* domain and path present, value not quoted, secure true, httpOnly false).
C11_RoundTripSavedForm ==
    (pc = "codecDone" /\ NoneFiltered) =>
        \A k \in 1..Len(cookieRecord) :
            LET c == cookieRecord[k]
                d == savedRecord[k]
            IN  /\ d.key = Or(c.key, c.name)
                /\ d.value = Unquote(c.value)
                /\ d.domain = Or(c.domain, "twitter.com")
                /\ d.path = Or(c.path, "/")
                /\ d.secure = "true"
                /\ d.httpOnly = "false"
                /\ SavedForm(c) => SameCookie(c, d)

\* two entries survive: one in saved form, one with other flags and no path
C11_Witness ==
    /\ pc = "codecDone"
    /\ NoneFiltered
    /\ Len(cookieRecord) = 2
    /\ SavedForm(cookieRecord[1])
    /\ cookieRecord[1].value = <<"a", "Q">>
    /\ cookieRecord[2].httpOnly = "true"
    /\ cookieRecord[2].domain = "x.com"
    /\ cookieRecord[2].path = ""

\* ------------------------------------------------------------------ analytics
Originals == {k \in 1..Len(tweets) : ~tweets[k].isRetweet}

RECURSIVE SumOver(_, _)
SumOver(S, f) ==
    IF S = {} THEN 0
    ELSE LET k == CHOOSE x \in S : TRUE
         IN  f[k] + SumOver(S \ {k}, f)

\* C13: whenever generateAnalytics returns a report and the corpus has no
\* non-retweet post (an empty corpus, or a corpus of retweets only), the
\* report's averageLikes is the string "0.00".
C13_ZeroAverageWithoutOriginals ==
    (pc = "analyticsReturned" /\ report.status = "ok" /\ Originals = {}) =>
        report.engagement.averageLikes = ZeroFixed

C15_TopTweetsRanked ==
    (pc = "analyticsReturned" /\ report.status = "ok") =>
        LET top == report.engagement.topTweets
            in == {top[j].id : j \in 1..Len(top)}
            L(id) == OrZero(tweets[id].likes)
        IN  /\ Len(top) = Min(TopN, Cardinality(Originals))
            /\ in \subseteq Originals
            /\ Cardinality(in) = Len(top)
            /\ \A j \in 1..Len(top) : top[j].likes = tweets[top[j].id].likes
            /\ \A j, k \in 1..Len(top) :
                   j < k => /\ L(top[j].id) >= L(top[k].id)
                            /\ L(top[j].id) = L(top[k].id)
                                   => top[j].id < top[k].id
            /\ \A o \in Originals \ in : \A i2 \in in : L(o) <= L(i2)

\* six original posts with ties and a missing count: one is left out
C15_Witness ==
    /\ pc = "analyticsReturned"
    /\ report.status = "ok"
    /\ Len(tweets) = 6
    /\ Cardinality(Originals) = 6
    /\ [k \in 1..6 |-> tweets[k].likes] = <<0, 1, Undefined, 1, 0, 1>>
    /\ [j \in 1..Len(report.engagement.topTweets) |->
           report.engagement.topTweets[j].id] = <<2, 4, 6, 1, 3>>

\* C16: for every corpus (whose texts are all present) generateAnalytics
\* returns a report that counts every post in totalTweets and whose timeRange
\* endpoints are the days of the least and the greatest timestamp among the
\* posts whose timestamp is neither null nor absent, "N/A" when there is none.
C16_InvalidStampsExcluded ==
    (/\ pc = "analyticsReturned"
     /\ \A k \in 1..Len(tweets) : tweets[k].textLen # Undefined) =>
        LET valid == {tweets[k].timestamp : k \in 1..Len(tweets)}
                         \ {Null, Undefined}
            least == CHOOSE a \in valid : \A b \in valid : a <= b
            greatest == CHOOSE a \in valid : \A b \in valid : a >= b
        IN  /\ report.status = "ok"
            /\ report.totalTweets = Len(tweets)
            /\ valid = {} => /\ report.timeRange.start = NotAvailable
                             /\ report.timeRange.end = NotAvailable
            /\ valid # {} => /\ report.timeRange.start = FormatDate(least)
                             /\ report.timeRange.end = FormatDate(greatest)

\* ---------------------------------------------------------------- termination
\* C21: for every source sequence of at most srcMax items and every pattern of
\* collaborator failures, the run ends, and it ends by run() returning unless
\* validateEnvironment, its first step, ended the process for a missing
\* credential.  On the way login is called at most maxRetries times, the
\* iterator yields at most srcMax items and each turn of the collection loop
\* consumes one, and the parent loop moves one reply forward per getTweet
\* call and never past the last reply.
C21_RunReturns ==
    /\ <>(pc \in {"returned", "exited"})
    /\ [][/\ pc' = "exited" => pc \in {"validateEnvironment", "exited"}
          /\ pc' = "validateEnvironment" => pc = "validateEnvironment"]_vars
    /\ [](/\ loginCalls <= maxRetries
          /\ yielded <= srcMax
          /\ i <= Len(replies)
          /\ calls["getTweet"] = i
          /\ Len(fetchLog) = i)
    /\ [][/\ yielded' \in {yielded, yielded + 1}
          /\ i' \in {i, i + 1}
          /\ pc = "returned" => pc' = "returned"]_vars

\* a run that returned after a failed login attempt, a failed profile lookup,
\* a source read to its end, a failed parent fetch and a failed logout
C21_Witness ==
    /\ pc = "returned"
    /\ outcome = "done"
    /\ failedAttempts >= 1
    /\ profileResult = "threw"
    /\ yielded = srcMax
    /\ exhausted
    /\ \E k \in 1..Len(fetchLog) : fetchLog[k] = "throws"
    /\ logoutResult = "threw"
====
